---------------------------- MODULE Spec2Model ----------------------------
(***************************************************************************)
(* The fungible-token contract of src/ft/src/lib.rs.                       *)
(*                                                                         *)
(* lib.rs itself holds the initializers (new, new_default_meta), the two   *)
(* hooks (on_account_closed, on_tokens_burned) and ft_metadata.  Every     *)
(* other entry point is generated at lib.rs:93-94 by the macros            *)
(* impl_fungible_token_core! and impl_fungible_token_storage! of           *)
(* near_contract_standards, which delegate to FungibleToken (the field     *)
(* `token`).  Those entry points are modelled after the bodies the macros  *)
(* expand to (near-contract-standards 4.x: fungible_token/core_impl.rs,    *)
(* storage_impl.rs, macros.rs), step by step, as operators on a call       *)
(* context; a panic stops the call and the runtime discards its writes     *)
(* and its promises.                                                       *)
(*                                                                         *)
(* One action is one whole call.  The variable `last` records the call     *)
(* that produced the current state and how it ended; `logs` and            *)
(* `promises` are what that call logged and scheduled.                     *)
(***************************************************************************)
EXTENDS Integers, Sequences, FiniteSets, TLC

(* ------------------------------ bounds -------------------------------- *)

\* Balance::MAX of the model, the ceiling checked_add compares against (the
\* contract's Balance is u128).
MaxBalance == 2

\* Largest attached deposit a call of the model carries (yoctoNEAR, scaled).
MaxDeposit == 3

\* Most ft_transfer_call's in flight at once.
MaxPending == 1

\* Ceiling of the funds the model follows: a call that would take the
\* contract's net funds above it is not made.
MaxFunds == 3

(* ----------------------------- constants ------------------------------ *)

\* storage_balance_bounds().min = account_storage_usage * storage_byte_cost,
\* a fixed amount above one yoctoNEAR; scaled so that 1 < min < MaxDeposit.
StorageBalanceMin == 2

\* The callers (predecessor accounts) and account arguments of the model.
Accounts == {"bob", "charlie", "danny"}

\* Option::None for an account, an amount and a flag.
NoAccount == "none"
NoAmount == 0 - 1

Amounts == 0 .. MaxBalance
Deposits == 0 .. MaxDeposit
Memos == {"none", "memo"}
ForceArgs == {"none", "true", "false"}

(* ------------------------- results of a call -------------------------- *)

OK == "ok"
\* The spec's error names, as the panic messages the code raises.
NotInitialized == "The contract is not initialized"
AlreadyInitialized == "Already initialized"
InsufficientAttachedPayment == "Requires attached deposit of exactly 1 yoctoNEAR"
SelfTransfer == "Sender and receiver should be different"
ZeroAmount == "The amount should be a positive number"
AccountNotRegistered == "The account is not registered"
InsufficientBalance == "The account doesn't have enough balance"
BalanceOverflow == "Balance overflow"
TotalSupplyOverflow == "Total supply overflow"
AlreadyRegistered == "The account is already registered"
NonZeroBalance == "Can't unregister the account with the positive balance without force"
DepositOutOfBounds == "The attached deposit is less than the minimum storage balance"
InsufficientStorageBalance == "The amount is greater than the available storage balance"

InvalidMetadata == "require! assertion failed"
MoreGasRequired == "More gas is required"

(* ------------------------------ metadata ------------------------------ *)


\* FT_METADATA_SPEC.
FtMetadataSpec == "ft-1.0.0"

\* The icon Contract::new stores whatever the caller passed.
NewIcon == "data:image/svg+xml,<svg id=layer>"

\* DATA_IMAGE_SVG_NEAR_ICON, the icon new_default_meta passes.
DataImageSvgNearIcon == "data:image/svg+xml,<svg id=svg21>"

Metadata(spec, name, symbol, icon, reference, reference_hash, decimals) ==
  [spec |-> spec, name |-> name, symbol |-> symbol, icon |-> icon,
   reference |-> reference, reference_hash |-> reference_hash,
   decimals |-> decimals]

\* No metadata stored: the contract has no state yet.
NoMetadata == Metadata("none", "none", "none", "none", "none", "none", 0)

\* The metadata new_default_meta passes to new.
DefaultMeta ==
  Metadata(FtMetadataSpec, "Example NEAR fungible token", "EXAMPLE",
           DataImageSvgNearIcon, "none", "none", 24)

\* Metadata arguments of new: a valid one, one naming a reference without
\* its hash, one with another spec string.
MetaArgs ==
  { Metadata(FtMetadataSpec, "Token", "TKN", "none", "none", "none", 8),
    Metadata(FtMetadataSpec, "Token", "TKN", "icon", "ref", "none", 8),
    Metadata("nft-1.0.0", "Token", "TKN", "none", "none", "none", 8) }

\* Contract::new rebuilds the metadata: spec, name, symbol and decimals as
\* passed, its own icon, no reference and no reference hash.
RebuildMetadata(m) ==
  Metadata(m.spec, m.name, m.symbol, NewIcon, "none", "none", m.decimals)

\* FungibleTokenMetadata::assert_valid: the spec string is FT_METADATA_SPEC
\* and reference and reference_hash come together.
MetadataValid(m) ==
  /\ m.spec = FtMetadataSpec
  /\ (m.reference # "none") = (m.reference_hash # "none")

(* ------------------------------- state -------------------------------- *)

VARIABLES
  initialized,   \* env::state_exists()
  accounts,      \* token.accounts: account id -> balance, for registered accounts
  total_supply,  \* token.total_supply
  last,          \* the call that led here: arguments, result, return value
  logs,          \* what that call logged (events and log! lines), in order
  promises,      \* the transfers that call scheduled, in order
  metadata,      \* the stored FungibleTokenMetadata (NoMetadata before new)
  pending,       \* ft_transfer_call's in flight: their ft_resolve_transfer is due
  funds          \* yoctoNEAR the contract has kept of attached deposits, less
                 \* the transfers it has sent (followed where a profile says so)

vars == <<initialized, accounts, total_supply, last, logs, promises, metadata,
          pending, funds>>

EmptyAccounts == [a \in {} |-> 0]

(* ----------------------------- log records ---------------------------- *)

Event(kind, a, b, amount, memo) ==
  [kind |-> kind, a |-> a, b |-> b, amount |-> amount, memo |-> memo]

FtMint(owner, amount, memo) == Event("ft_mint", owner, NoAccount, amount, memo)
FtTransfer(old, new, amount, memo) == Event("ft_transfer", old, new, amount, memo)
FtBurn(owner, amount, memo) == Event("ft_burn", owner, NoAccount, amount, memo)
SenderDeletedLog == Event("sender_deleted", NoAccount, NoAccount, 0, "none")
ClosedLog(account, balance) == Event("closed", account, NoAccount, balance, "none")
BurnedLog(account, amount) == Event("burned", account, NoAccount, amount, "none")
AlreadyRegisteredLog == Event("already_registered", NoAccount, NoAccount, 0, "none")
NotRegisteredLog(account) == Event("not_registered", account, NoAccount, 0, "none")

(* ---------------------------- call context ---------------------------- *)

\* The contract's storage as a call sees it, with what the call has logged
\* and scheduled so far, and the panic that stopped it (OK: still running).
Ctx(acc, ts) ==
  [accounts |-> acc, total_supply |-> ts, logs |-> <<>>, promises |-> <<>>,
   err |-> OK, ret |-> "unit"]

Panic(ctx, msg) == [ctx EXCEPT !.err = msg]

Log(ctx, e) == [ctx EXCEPT !.logs = Append(@, e)]

PromiseTransfer(ctx, to, amount) ==
  [ctx EXCEPT !.promises = Append(@, [to |-> to, amount |-> amount])]

Insert(acc, a, v) == [x \in DOMAIN acc \cup {a} |-> IF x = a THEN v ELSE acc[x]]
Remove(acc, a) == [x \in DOMAIN acc \ {a} |-> acc[x]]

\* LookupMap::get(a).unwrap_or(0).
GetOrZero(acc, a) == IF a \in DOMAIN acc THEN acc[a] ELSE 0


(* ------------------- FungibleToken (the field `token`) ---------------- *)

\* Mutant of AssertOneYocto: any attached deposit of at least one passes.
AssertAtLeastOneYocto(ctx, deposit) ==
  IF ctx.err # OK THEN ctx
  ELSE IF deposit >= 1 THEN ctx
  ELSE Panic(ctx, InsufficientAttachedPayment)

\* near_sdk::assert_one_yocto: require!(env::attached_deposit() == 1).
AssertOneYocto(ctx, deposit) ==
  IF ctx.err # OK THEN ctx
  ELSE IF deposit = 1 THEN ctx
  ELSE Panic(ctx, InsufficientAttachedPayment)

\* FungibleToken::internal_register_account: insert(account, 0), panicking
\* when the insert replaced an entry.
InternalRegisterAccount(ctx, account) ==
  IF ctx.err # OK THEN ctx
  ELSE IF account \in DOMAIN ctx.accounts
       THEN Panic([ctx EXCEPT !.accounts = Insert(@, account, 0)], AlreadyRegistered)
       ELSE [ctx EXCEPT !.accounts = Insert(@, account, 0)]

\* Mutant of InternalDeposit: a missing account is created by the credit.
InternalDepositAutoRegisters(ctx, account, amount) ==
  IF ctx.err # OK THEN ctx
  ELSE LET old == IF account \in DOMAIN ctx.accounts THEN ctx.accounts[account] ELSE 0
       IN IF old + amount > MaxBalance THEN Panic(ctx, BalanceOverflow)
          ELSE IF ctx.total_supply + amount > MaxBalance
               THEN Panic(ctx, TotalSupplyOverflow)
               ELSE [ctx EXCEPT !.accounts = Insert(@, account, old + amount),
                                !.total_supply = @ + amount]

\* Mutant of InternalDeposit: the balance is credited, total_supply is not.
InternalDepositForgetsSupply(ctx, account, amount) ==
  IF ctx.err # OK THEN ctx
  ELSE IF account \notin DOMAIN ctx.accounts THEN Panic(ctx, AccountNotRegistered)
  ELSE IF ctx.accounts[account] + amount > MaxBalance THEN Panic(ctx, BalanceOverflow)
  ELSE [ctx EXCEPT !.accounts[account] = @ + amount]

\* Mutant of InternalDeposit: the sums wrap at the width of a balance.
InternalDepositWraps(ctx, account, amount) ==
  IF ctx.err # OK THEN ctx
  ELSE IF account \notin DOMAIN ctx.accounts THEN Panic(ctx, AccountNotRegistered)
  ELSE [ctx EXCEPT !.accounts[account] = (@ + amount) % (MaxBalance + 1),
                   !.total_supply = (@ + amount) % (MaxBalance + 1)]

\* FungibleToken::internal_deposit: internal_unwrap_balance_of, checked_add
\* on the balance, insert, then checked_add on total_supply.
InternalDeposit(ctx, account, amount) ==
  IF ctx.err # OK THEN ctx
  ELSE IF account \notin DOMAIN ctx.accounts THEN Panic(ctx, AccountNotRegistered)
  ELSE IF ctx.accounts[account] + amount > MaxBalance THEN Panic(ctx, BalanceOverflow)
  ELSE LET c1 == [ctx EXCEPT !.accounts[account] = @ + amount]
       IN IF c1.total_supply + amount > MaxBalance
          THEN Panic(c1, TotalSupplyOverflow)
          ELSE [c1 EXCEPT !.total_supply = @ + amount]

\* Mutant of InternalWithdraw: total_supply is debited, the balance is not.
InternalWithdrawKeepsBalance(ctx, account, amount) ==
  IF ctx.err # OK THEN ctx
  ELSE IF account \notin DOMAIN ctx.accounts THEN Panic(ctx, AccountNotRegistered)
  ELSE IF ctx.accounts[account] - amount < 0 THEN Panic(ctx, InsufficientBalance)
  ELSE IF ctx.total_supply - amount < 0 THEN Panic(ctx, TotalSupplyOverflow)
  ELSE [ctx EXCEPT !.total_supply = @ - amount]

\* FungibleToken::internal_withdraw: internal_unwrap_balance_of, checked_sub
\* on the balance, insert, then checked_sub on total_supply.
InternalWithdraw(ctx, account, amount) ==
  IF ctx.err # OK THEN ctx
  ELSE IF account \notin DOMAIN ctx.accounts THEN Panic(ctx, AccountNotRegistered)
  ELSE IF ctx.accounts[account] - amount < 0 THEN Panic(ctx, InsufficientBalance)
  ELSE LET c1 == [ctx EXCEPT !.accounts[account] = @ - amount]
       IN IF c1.total_supply - amount < 0
          THEN Panic(c1, TotalSupplyOverflow)
          ELSE [c1 EXCEPT !.total_supply = @ - amount]

\* Mutant of EmitFtTransfer: the event leaves the memo out.
EmitFtTransferDropsMemo(ctx, sender, receiver, amount, memo) ==
  IF ctx.err # OK THEN ctx ELSE Log(ctx, FtTransfer(sender, receiver, amount, "none"))

\* The event FungibleToken::internal_transfer emits once both balances are
\* written.
EmitFtTransfer(ctx, sender, receiver, amount, memo) ==
  IF ctx.err # OK THEN ctx ELSE Log(ctx, FtTransfer(sender, receiver, amount, memo))

\* Mutant of InternalTransfer: the amount is checked before the accounts are
\* compared.
InternalTransferChecksAmountFirst(ctx, sender, receiver, amount, memo) ==
  IF ctx.err # OK THEN ctx
  ELSE IF ~(amount > 0) THEN Panic(ctx, ZeroAmount)
  ELSE IF sender = receiver THEN Panic(ctx, SelfTransfer)
  ELSE EmitFtTransfer(
         InternalDeposit(InternalWithdraw(ctx, sender, amount), receiver, amount),
         sender, receiver, amount, memo)

\* Mutant of InternalTransfer: the amount is not checked.
InternalTransferAllowsZero(ctx, sender, receiver, amount, memo) ==
  IF ctx.err # OK THEN ctx
  ELSE IF sender = receiver THEN Panic(ctx, SelfTransfer)
  ELSE EmitFtTransfer(
         InternalDeposit(InternalWithdraw(ctx, sender, amount), receiver, amount),
         sender, receiver, amount, memo)

\* Mutant of InternalTransfer: the event is emitted before the balances are
\* written.
InternalTransferEmitsFirst(ctx, sender, receiver, amount, memo) ==
  IF ctx.err # OK THEN ctx
  ELSE IF sender = receiver THEN Panic(ctx, SelfTransfer)
  ELSE IF ~(amount > 0) THEN Panic(ctx, ZeroAmount)
  ELSE InternalDeposit(
         InternalWithdraw(EmitFtTransfer(ctx, sender, receiver, amount, memo),
                          sender, amount),
         receiver, amount)

\* FungibleToken::internal_transfer.
InternalTransfer(ctx, sender, receiver, amount, memo) ==
  IF ctx.err # OK THEN ctx
  ELSE IF sender = receiver THEN Panic(ctx, SelfTransfer)
  ELSE IF ~(amount > 0) THEN Panic(ctx, ZeroAmount)
  ELSE EmitFtTransfer(
         InternalDeposit(InternalWithdraw(ctx, sender, amount), receiver, amount),
         sender, receiver, amount, memo)

\* FungibleTokenCore::ft_transfer for FungibleToken.
TokenFtTransfer(ctx, caller, receiver, amount, memo, deposit) ==
  InternalTransfer(AssertOneYocto(ctx, deposit), caller, receiver, amount, memo)

\* FungibleTokenCore::ft_transfer_call for FungibleToken: the payment and gas
\* checks and the transfer; the call to the receiver's ft_on_transfer and the
\* ft_resolve_transfer callback are scheduled when the call returns.
TokenFtTransferCall(ctx, caller, receiver, amount, memo, deposit, gasEnough) ==
  LET c0 == AssertOneYocto(ctx, deposit) IN
  IF c0.err # OK THEN c0
  ELSE IF ~gasEnough THEN Panic(c0, MoreGasRequired)
  ELSE LET c1 == InternalTransfer(c0, caller, receiver, amount, memo)
       IN IF c1.err # OK THEN c1 ELSE [c1 EXCEPT !.ret = "promise"]

\* The unused amount internal_ft_resolve_transfer reads off the promise
\* result: the returned number capped by the amount, or the whole amount when
\* ft_on_transfer failed or returned something else (NoAmount).
UnusedAmount(amount, result) ==
  IF result = NoAmount THEN amount
  ELSE IF result < amount THEN result ELSE amount

Min(a, b) == IF a < b THEN a ELSE b

\* What internal_ft_resolve_transfer returns with the context it leaves.
Resolved(ctx, used, burned) == [ctx |-> ctx, used |-> used, burned |-> burned]

\* Mutant of InternalFtResolveTransfer: the refund is credited to the sender
\* whether or not the sender still has an account.
InternalFtResolveTransferCreditsDeleted(ctx, sender, receiver, amount, result) ==
  LET unused == UnusedAmount(amount, result)
      receiver_balance == GetOrZero(ctx.accounts, receiver)
      refund == Min(receiver_balance, unused)
  IN IF ctx.err # OK THEN Resolved(ctx, 0, 0)
     ELSE IF unused > 0 /\ receiver_balance > 0
     THEN Resolved(
            Log([ctx EXCEPT !.accounts =
                   Insert(Insert(@, receiver, receiver_balance - refund),
                          sender, GetOrZero(ctx.accounts, sender) + refund)],
                FtTransfer(receiver, sender, refund, "refund")),
            amount - refund, 0)
     ELSE Resolved(ctx, amount, 0)

\* Mutant of InternalFtResolveTransfer: the whole unused amount is taken back,
\* whatever the receiver still holds.
InternalFtResolveTransferTakesUnused(ctx, sender, receiver, amount, result) ==
  LET unused == UnusedAmount(amount, result)
      receiver_balance == GetOrZero(ctx.accounts, receiver)
      refund == unused
  IN IF ctx.err # OK THEN Resolved(ctx, 0, 0)
     ELSE IF unused > 0 /\ receiver_balance > 0
     THEN LET c1 == [ctx EXCEPT !.accounts =
                       Insert(@, receiver, receiver_balance - refund)]
          IN IF sender \in DOMAIN c1.accounts
             THEN Resolved(
                    Log([c1 EXCEPT !.accounts[sender] = @ + refund],
                        FtTransfer(receiver, sender, refund, "refund")),
                    amount - refund, 0)
             ELSE Resolved(
                    Log(Log([c1 EXCEPT !.total_supply = @ - refund],
                            SenderDeletedLog),
                        FtBurn(receiver, refund, "refund")),
                    amount, refund)
     ELSE Resolved(ctx, amount, 0)

\* FungibleToken::internal_ft_resolve_transfer: take back from the receiver
\* what it did not use and still holds; credit it to the sender, or burn it
\* when the sender's account is gone.
InternalFtResolveTransfer(ctx, sender, receiver, amount, result) ==
  LET unused == UnusedAmount(amount, result)
      receiver_balance == GetOrZero(ctx.accounts, receiver)
      refund == Min(receiver_balance, unused)
  IN IF ctx.err # OK THEN Resolved(ctx, 0, 0)
     ELSE IF unused > 0 /\ receiver_balance > 0
     THEN LET c1 == [ctx EXCEPT !.accounts =
                       Insert(@, receiver, receiver_balance - refund)]
          IN IF sender \in DOMAIN c1.accounts
             THEN Resolved(
                    Log([c1 EXCEPT !.accounts[sender] = @ + refund],
                        FtTransfer(receiver, sender, refund, "refund")),
                    amount - refund, 0)
             ELSE Resolved(
                    Log(Log([c1 EXCEPT !.total_supply = @ - refund],
                            SenderDeletedLog),
                        FtBurn(receiver, refund, "refund")),
                    amount, refund)
     ELSE Resolved(ctx, amount, 0)

\* Option<bool>::unwrap_or(false).
UnwrapOrFalse(force) == force = "true"

\* Mutant of InternalStorageUnregister: an account that is not registered
\* makes the call panic.
InternalStorageUnregisterPanicsUnknown(ctx, caller, force, deposit) ==
  LET c0 == AssertOneYocto(ctx, deposit) IN
  IF c0.err # OK THEN [c0 EXCEPT !.ret = "none"]
  ELSE IF caller \in DOMAIN c0.accounts
       THEN LET balance == c0.accounts[caller] IN
            IF balance = 0 \/ force = "true"
            THEN [PromiseTransfer(
                    [c0 EXCEPT !.accounts = Remove(@, caller),
                               !.total_supply = @ - balance],
                    caller, StorageBalanceMin + 1)
                  EXCEPT !.ret = "some"]
            ELSE Panic([c0 EXCEPT !.ret = "none"], NonZeroBalance)
       ELSE Panic([c0 EXCEPT !.ret = "none"], AccountNotRegistered)

\* Mutant of InternalStorageUnregister: the removed balance stays in
\* total_supply.
InternalStorageUnregisterNoBurn(ctx, caller, force, deposit) ==
  LET c0 == AssertOneYocto(ctx, deposit) IN
  IF c0.err # OK THEN [c0 EXCEPT !.ret = "none"]
  ELSE IF caller \in DOMAIN c0.accounts
       THEN IF c0.accounts[caller] = 0 \/ force = "true"
            THEN [PromiseTransfer([c0 EXCEPT !.accounts = Remove(@, caller)],
                                  caller, StorageBalanceMin + 1)
                  EXCEPT !.ret = "some"]
            ELSE Panic([c0 EXCEPT !.ret = "none"], NonZeroBalance)
       ELSE [Log(c0, NotRegisteredLog(caller)) EXCEPT !.ret = "none"]

\* FungibleToken::internal_storage_unregister; ret is "some" when the account
\* was removed (the caller then runs the hook with bal) and "none" otherwise.
InternalStorageUnregister(ctx, caller, force, deposit) ==
  LET c0 == AssertOneYocto(ctx, deposit) IN
  IF c0.err # OK THEN [c0 EXCEPT !.ret = "none"]
  ELSE IF caller \in DOMAIN c0.accounts
       THEN LET balance == c0.accounts[caller] IN
            IF balance = 0 \/ UnwrapOrFalse(force)
            THEN [PromiseTransfer(
                    [c0 EXCEPT !.accounts = Remove(@, caller),
                               !.total_supply = @ - balance],
                    caller, StorageBalanceMin + 1)
                  EXCEPT !.ret = "some"]
            ELSE Panic([c0 EXCEPT !.ret = "none"], NonZeroBalance)
       ELSE [Log(c0, NotRegisteredLog(caller)) EXCEPT !.ret = "none"]

\* Mutant of TokenStorageDeposit: the excess over the minimum is kept.
TokenStorageDepositKeepsExcess(ctx, caller, account_id, deposit) ==
  LET account == IF account_id = NoAccount THEN caller ELSE account_id IN
  IF ctx.err # OK THEN ctx
  ELSE IF account \in DOMAIN ctx.accounts
       THEN LET c1 == Log(ctx, AlreadyRegisteredLog)
            IN IF deposit > 0 THEN PromiseTransfer(c1, caller, deposit) ELSE c1
       ELSE IF deposit < StorageBalanceMin THEN Panic(ctx, DepositOutOfBounds)
       ELSE InternalRegisterAccount(ctx, account)

\* Mutant of TokenStorageDeposit: the attached deposit is not compared with
\* the minimum.
TokenStorageDepositNoMinimum(ctx, caller, account_id, deposit) ==
  LET account == IF account_id = NoAccount THEN caller ELSE account_id IN
  IF ctx.err # OK THEN ctx
  ELSE IF account \in DOMAIN ctx.accounts
       THEN LET c1 == Log(ctx, AlreadyRegisteredLog)
            IN IF deposit > 0 THEN PromiseTransfer(c1, caller, deposit) ELSE c1
       ELSE LET c1 == InternalRegisterAccount(ctx, account)
                refund == deposit - StorageBalanceMin
            IN IF c1.err = OK /\ refund > 0
               THEN PromiseTransfer(c1, caller, refund)
               ELSE c1

\* Mutant of TokenStorageDeposit: an account that is already registered is
\* registered again, with a fresh zero balance.
TokenStorageDepositRegistersAgain(ctx, caller, account_id, deposit) ==
  LET account == IF account_id = NoAccount THEN caller ELSE account_id IN
  IF ctx.err # OK THEN ctx
  ELSE IF deposit < StorageBalanceMin THEN Panic(ctx, DepositOutOfBounds)
  ELSE LET c1 == [ctx EXCEPT !.accounts = Insert(@, account, 0)]
           refund == deposit - StorageBalanceMin
       IN IF refund > 0 THEN PromiseTransfer(c1, caller, refund) ELSE c1

\* StorageManagement::storage_deposit for FungibleToken.
TokenStorageDeposit(ctx, caller, account_id, deposit) ==
  LET account == IF account_id = NoAccount THEN caller ELSE account_id IN
  IF ctx.err # OK THEN ctx
  ELSE IF account \in DOMAIN ctx.accounts
       THEN LET c1 == Log(ctx, AlreadyRegisteredLog)
            IN IF deposit > 0 THEN PromiseTransfer(c1, caller, deposit) ELSE c1
       ELSE IF deposit < StorageBalanceMin THEN Panic(ctx, DepositOutOfBounds)
       ELSE LET c1 == InternalRegisterAccount(ctx, account)
                refund == deposit - StorageBalanceMin
            IN IF c1.err = OK /\ refund > 0
               THEN PromiseTransfer(c1, caller, refund)
               ELSE c1

\* StorageManagement::storage_withdraw for FungibleToken: nothing is ever
\* available to withdraw, so any positive amount panics.
TokenStorageWithdraw(ctx, caller, amount, deposit) ==
  LET c0 == AssertOneYocto(ctx, deposit) IN
  IF c0.err # OK THEN c0
  ELSE IF caller \in DOMAIN c0.accounts
       THEN IF amount # NoAmount /\ amount > 0
            THEN Panic(c0, InsufficientStorageBalance)
            ELSE c0
       ELSE Panic(c0, AccountNotRegistered)

(* --------------------- Contract (src/ft/src/lib.rs) ------------------- *)

\* Contract::on_account_closed: log!("Closed @{} with {}").
OnAccountClosed(ctx, account, balance) == Log(ctx, ClosedLog(account, balance))

\* Contract::on_tokens_burned: log!("Account @{} burned {}").
OnTokensBurned(ctx, account, amount) == Log(ctx, BurnedLog(account, amount))

\* Mutant of ContractStorageUnregister: the burn hook runs in place of the
\* account-closed hook.
ContractStorageUnregisterBurnHook(ctx, caller, force, deposit) ==
  LET balance == IF caller \in DOMAIN ctx.accounts THEN ctx.accounts[caller] ELSE 0
      c1 == InternalStorageUnregister(ctx, caller, force, deposit)
  IN IF c1.err # OK THEN c1
     ELSE IF c1.ret = "some"
          THEN [OnTokensBurned(c1, caller, balance) EXCEPT !.ret = "true"]
          ELSE [c1 EXCEPT !.ret = "false"]

\* impl_fungible_token_storage!: storage_unregister runs the hook when the
\* token removed the account and returns whether it did.
ContractStorageUnregister(ctx, caller, force, deposit) ==
  LET balance == IF caller \in DOMAIN ctx.accounts THEN ctx.accounts[caller] ELSE 0
      c1 == InternalStorageUnregister(ctx, caller, force, deposit)
  IN IF c1.err # OK THEN c1
     ELSE IF c1.ret = "some"
          THEN [OnAccountClosed(c1, caller, balance) EXCEPT !.ret = "true"]
          ELSE [c1 EXCEPT !.ret = "false"]

\* The event Contract::new emits after the mint.
EmitFtMint(ctx, owner, amount) ==
  IF ctx.err # OK THEN ctx
  ELSE Log(ctx, FtMint(owner, amount, "Initial tokens supply is minted"))

\* Mutant of ContractNew: existing state is not looked at.
ContractNewOverExisting(exists, owner, supply, meta) ==
  LET c0 == Ctx(EmptyAccounts, 0) IN
  IF ~MetadataValid(RebuildMetadata(meta)) THEN Panic(c0, InvalidMetadata)
  ELSE EmitFtMint(InternalDeposit(InternalRegisterAccount(c0, owner), owner, supply),
                  owner, supply)

\* Contract::new: rebuild the metadata, the state_exists assertion,
\* assert_valid, FungibleToken::new, register the owner, deposit the supply,
\* emit the mint event.
ContractNew(exists, owner, supply, meta) ==
  LET c0 == Ctx(EmptyAccounts, 0) IN
  IF exists THEN Panic(c0, AlreadyInitialized)
  ELSE IF ~MetadataValid(RebuildMetadata(meta)) THEN Panic(c0, InvalidMetadata)
  ELSE EmitFtMint(InternalDeposit(InternalRegisterAccount(c0, owner), owner, supply),
                  owner, supply)

\* Contract::new_default_meta.
ContractNewDefaultMeta(exists, owner, supply) ==
  ContractNew(exists, owner, supply, DefaultMeta)

\* FungibleTokenMetadataProvider::ft_metadata: self.metadata.get().unwrap().
ft_metadata(m) == m

\* #[near_bindgen] with PanicOnDefault: a method of an uninitialized
\* contract panics before its body runs.
Enter(exists, acc, ts) ==
  IF exists THEN Ctx(acc, ts) ELSE Panic(Ctx(acc, ts), NotInitialized)

(* ------------------------------- views -------------------------------- *)

\* ft_balance_of: accounts.get(account).unwrap_or(0).
ft_balance_of(acc, a) == IF a \in DOMAIN acc THEN acc[a] ELSE 0

\* ft_total_supply.
ft_total_supply(ts) == ts

Registered(acc) == DOMAIN acc

RECURSIVE SumOver(_, _)
SumOver(acc, S) ==
  IF S = {} THEN 0
  ELSE LET a == CHOOSE x \in S : TRUE IN acc[a] + SumOver(acc, S \ {a})

SumBalances(acc) == SumOver(acc, DOMAIN acc)

\* impl_fungible_token_core!: ft_resolve_transfer runs on_tokens_burned when
\* the token burned something and returns the used amount.
ContractFtResolveTransfer(ctx, sender, receiver, amount, result) ==
  LET r == InternalFtResolveTransfer(ctx, sender, receiver, amount, result)
  IN IF r.ctx.err # OK THEN r.ctx
     ELSE [(IF r.burned > 0 THEN OnTokensBurned(r.ctx, sender, r.burned) ELSE r.ctx)
             EXCEPT !.ret = ToString(r.used)]

(* ------------------------------ actions ------------------------------- *)

\* A call's name, caller and arguments.
Call(op, caller, account, amount, force, deposit) ==
  [op |-> op, caller |-> caller, account |-> account, amount |-> amount,
   force |-> force, deposit |-> deposit]

\* A transfer call, with its memo.
TransferCall(op, caller, receiver, amount, memo, deposit) ==
  [op |-> op, caller |-> caller, account |-> receiver, amount |-> amount,
   force |-> "none", deposit |-> deposit, memo |-> memo]

\* The ft_resolve_transfer callback of a transfer from sender to receiver,
\* with what ft_on_transfer returned.
CallbackCall(sender, receiver, amount, result) ==
  [op |-> "ft_resolve_transfer", caller |-> sender, account |-> receiver,
   amount |-> amount, force |-> "none", deposit |-> 0, result |-> result]

\* The end of a call: a call that returned keeps its writes and its promises;
\* a call that panicked leaves storage as it was and schedules nothing.
Commit(ctx, call) ==
  /\ last' = [call |-> call, err |-> ctx.err,
              ret |-> IF ctx.err = OK THEN ctx.ret ELSE "panic"]
  /\ logs' = ctx.logs
  /\ IF ctx.err = OK
     THEN /\ accounts' = ctx.accounts
          /\ total_supply' = ctx.total_supply
          /\ promises' = ctx.promises
     ELSE /\ accounts' = accounts
          /\ total_supply' = total_supply
          /\ promises' = <<>>

Init ==
  /\ initialized = FALSE
  /\ accounts = EmptyAccounts
  /\ total_supply = 0
  /\ last = [call |-> Call("deploy", NoAccount, NoAccount, NoAmount, "none", 0),
             err |-> OK, ret |-> "unit"]
  /\ logs = <<>>
  /\ promises = <<>>
  /\ metadata = NoMetadata
  /\ pending = <<>>
  /\ funds = 0

(* The inputs a specification draws its calls from.                        *)

Profile(inits, oneYocto, storageDeposits, memos, forces, withdrawals, gas, track) ==
  [inits |-> inits, oneYocto |-> oneYocto, storageDeposits |-> storageDeposits,
   memos |-> memos, forces |-> forces, withdrawals |-> withdrawals,
   gas |-> gas, track |-> track]

\* The two #[init] entry points.
InitOps == {"new", "new_default_meta"}

\* The initializer calls: new_default_meta, and new with each metadata.
InitDefault == {[fn |-> "new_default_meta", meta |-> DefaultMeta]}
InitNew == {[fn |-> "new", meta |-> m] : m \in MetaArgs}

\* Every attached deposit on every call; the contract is initialized by
\* new_default_meta, as in the tests; transfers carry no memo.
BaseProfile ==
  Profile(InitDefault, Deposits, Deposits, {"none"}, ForceArgs, {NoAmount, 0, 1},
          BOOLEAN, FALSE)

\* Transfers with and without a memo, calls with and without their payment.
EventsProfile ==
  Profile(InitDefault, {0, 1}, {0, StorageBalanceMin}, Memos, {"true", "false"},
          {NoAmount}, {TRUE}, FALSE)

\* Calls that attach what they must: one yoctoNEAR, or the storage minimum.
\* The calls between a transfer-and-call and its callback are drawn from here.
AsyncProfile ==
  Profile(InitDefault, {1}, {StorageBalanceMin}, {"none"}, {"true", "false"},
          {NoAmount}, {TRUE}, FALSE)

\* Both initializers with every metadata argument.
MetaProfile ==
  Profile(InitDefault \cup InitNew, {1}, {StorageBalanceMin}, {"none"},
          {"true", "false"}, {NoAmount}, {TRUE}, FALSE)

\* The contract's funds are followed.
FundsProfile ==
  Profile(InitDefault, {1}, {StorageBalanceMin, MaxDeposit}, {"none"},
          {"true", "false"}, {NoAmount}, {TRUE}, TRUE)

\* All yoctoNEAR a call's promises send out.
RECURSIVE SumAllPromises(_)
SumAllPromises(ps) ==
  IF ps = <<>> THEN 0 ELSE Head(ps).amount + SumAllPromises(Tail(ps))

\* The contract account's funds after a call: a call that returns keeps its
\* attached deposit and pays its promises; a call that panics gets nothing.
FundsAfter(ctx, deposit) ==
  IF ctx.err = OK THEN funds + deposit - SumAllPromises(ctx.promises) ELSE funds

Track(P, ctx, deposit) ==
  IF P.track
  THEN /\ FundsAfter(ctx, deposit) <= MaxFunds
       /\ funds' = FundsAfter(ctx, deposit)
  ELSE funds' = funds

\* new / new_default_meta.
NewP(P) ==
  \E owner \in Accounts, supply \in Amounts, init \in P.inits :
    LET ctx == IF init.fn = "new"
               THEN ContractNew(initialized, owner, supply, init.meta)
               ELSE ContractNewDefaultMeta(initialized, owner, supply)
    IN /\ Commit(ctx, Call(init.fn, owner, owner, supply, "none", 0))
       /\ initialized' = (initialized \/ ctx.err = OK)
       /\ metadata' = IF ctx.err = OK THEN RebuildMetadata(init.meta) ELSE metadata
       /\ Track(P, ctx, 0)
       /\ UNCHANGED pending

FtTransferP(P) ==
  \E caller \in Accounts, receiver \in Accounts, amount \in Amounts,
     memo \in P.memos, deposit \in P.oneYocto :
    LET ctx == TokenFtTransfer(Enter(initialized, accounts, total_supply),
                               caller, receiver, amount, memo, deposit)
    IN /\ Commit(ctx, TransferCall("ft_transfer", caller, receiver, amount, memo,
                                   deposit))
       /\ Track(P, ctx, deposit)
       /\ UNCHANGED <<initialized, metadata, pending>>

\* ft_transfer_call: a call that returns leaves its callback due.
FtTransferCallP(P) ==
  \E caller \in Accounts, receiver \in Accounts, amount \in Amounts,
     memo \in P.memos, deposit \in P.oneYocto, gasEnough \in P.gas :
    LET ctx == TokenFtTransferCall(Enter(initialized, accounts, total_supply),
                                   caller, receiver, amount, memo, deposit,
                                   gasEnough)
    IN /\ Len(pending) < MaxPending
       /\ Commit(ctx, TransferCall("ft_transfer_call", caller, receiver, amount,
                                   memo, deposit))
       /\ pending' = IF ctx.err = OK
                     THEN Append(pending, [sender |-> caller, receiver |-> receiver,
                                           amount |-> amount])
                     ELSE pending
       /\ Track(P, ctx, deposit)
       /\ UNCHANGED <<initialized, metadata>>

\* ft_resolve_transfer: #[private], so it runs only as the callback of a
\* transfer in flight, with whatever the receiver's ft_on_transfer returned.
FtResolveTransferP(P) ==
  \E i \in 1 .. Len(pending), result \in Amounts \cup {NoAmount} :
    LET t == pending[i]
        ctx == ContractFtResolveTransfer(Enter(initialized, accounts, total_supply),
                                         t.sender, t.receiver, t.amount, result)
    IN /\ Commit(ctx, CallbackCall(t.sender, t.receiver, t.amount, result))
       /\ pending' = [j \in 1 .. Len(pending) - 1 |->
                        IF j < i THEN pending[j] ELSE pending[j + 1]]
       /\ Track(P, ctx, 0)
       /\ UNCHANGED <<initialized, metadata>>

StorageDepositP(P) ==
  \E caller \in Accounts, account_id \in Accounts \cup {NoAccount},
     deposit \in P.storageDeposits :
    LET ctx == TokenStorageDeposit(Enter(initialized, accounts, total_supply),
                                   caller, account_id, deposit)
    IN /\ Commit(ctx, Call("storage_deposit", caller, account_id, NoAmount, "none",
                           deposit))
       /\ Track(P, ctx, deposit)
       /\ UNCHANGED <<initialized, metadata, pending>>

StorageWithdrawP(P) ==
  \E caller \in Accounts, amount \in P.withdrawals, deposit \in P.oneYocto :
    LET ctx == TokenStorageWithdraw(Enter(initialized, accounts, total_supply),
                                    caller, amount, deposit)
    IN /\ Commit(ctx, Call("storage_withdraw", caller, NoAccount, amount, "none",
                           deposit))
       /\ Track(P, ctx, deposit)
       /\ UNCHANGED <<initialized, metadata, pending>>

StorageUnregisterP(P) ==
  \E caller \in Accounts, force \in P.forces, deposit \in P.oneYocto :
    LET ctx == ContractStorageUnregister(Enter(initialized, accounts, total_supply),
                                         caller, force, deposit)
    IN /\ Commit(ctx, Call("storage_unregister", caller, NoAccount, NoAmount, force,
                           deposit))
       /\ Track(P, ctx, deposit)
       /\ UNCHANGED <<initialized, metadata, pending>>

New == NewP(BaseProfile)

FtTransferCall == FtTransferP(BaseProfile)

StorageDeposit == StorageDepositP(BaseProfile)

StorageWithdraw == StorageWithdrawP(BaseProfile)

StorageUnregister == StorageUnregisterP(BaseProfile)

Next ==
  \/ New
  \/ FtTransferCall
  \/ StorageDeposit
  \/ StorageWithdraw
  \/ StorageUnregister

Spec == Init /\ [][Next]_vars

(* Transfer-and-call with its callback, among the other calls.             *)

AsyncNew == NewP(AsyncProfile)
AsyncFtTransfer == FtTransferP(AsyncProfile)
AsyncFtTransferCall == FtTransferCallP(AsyncProfile)
AsyncFtResolveTransfer == FtResolveTransferP(AsyncProfile)
AsyncStorageDeposit == StorageDepositP(AsyncProfile)
AsyncStorageWithdraw == StorageWithdrawP(AsyncProfile)
AsyncStorageUnregister == StorageUnregisterP(AsyncProfile)

NextAsync ==
  \/ AsyncNew
  \/ AsyncFtTransfer
  \/ AsyncFtTransferCall
  \/ AsyncFtResolveTransfer
  \/ AsyncStorageDeposit
  \/ AsyncStorageWithdraw
  \/ AsyncStorageUnregister

SpecAsync == Init /\ [][NextAsync]_vars

(* What the calls log.                                                     *)

EventsNew == NewP(EventsProfile)
EventsFtTransfer == FtTransferP(EventsProfile)
EventsStorageDeposit == StorageDepositP(EventsProfile)
EventsStorageWithdraw == StorageWithdrawP(EventsProfile)
EventsStorageUnregister == StorageUnregisterP(EventsProfile)

NextEvents ==
  \/ EventsNew
  \/ EventsFtTransfer
  \/ EventsStorageDeposit
  \/ EventsStorageWithdraw
  \/ EventsStorageUnregister

SpecEvents == Init /\ [][NextEvents]_vars

(* Both initializers and every metadata argument.                          *)

MetaNew == NewP(MetaProfile)
MetaFtTransfer == FtTransferP(MetaProfile)
MetaStorageDeposit == StorageDepositP(MetaProfile)
MetaStorageWithdraw == StorageWithdrawP(MetaProfile)
MetaStorageUnregister == StorageUnregisterP(MetaProfile)

NextMeta ==
  \/ MetaNew
  \/ MetaFtTransfer
  \/ MetaStorageDeposit
  \/ MetaStorageWithdraw
  \/ MetaStorageUnregister

SpecMeta == Init /\ [][NextMeta]_vars

(* The contract account's funds.                                           *)

FundsNew == NewP(FundsProfile)
FundsFtTransfer == FtTransferP(FundsProfile)
FundsStorageDeposit == StorageDepositP(FundsProfile)
FundsStorageWithdraw == StorageWithdrawP(FundsProfile)
FundsStorageUnregister == StorageUnregisterP(FundsProfile)

NextFunds ==
  \/ FundsNew
  \/ FundsFtTransfer
  \/ FundsStorageDeposit
  \/ FundsStorageWithdraw
  \/ FundsStorageUnregister

SpecFunds == Init /\ [][NextFunds]_vars

(* ------------------------- reading a step ----------------------------- *)

\* The call that takes the current state to the next one, and its outcome.
StepOp == last'.call.op
StepCaller == last'.call.caller
StepAccount == last'.call.account
StepAmount == last'.call.amount
StepForce == last'.call.force
StepDeposit == last'.call.deposit
StepErr == last'.err
StepRet == last'.ret

LedgerUnchanged ==
  /\ accounts' = accounts
  /\ total_supply' = total_supply
  /\ initialized' = initialized

TokenEventKinds == {"ft_mint", "ft_transfer", "ft_burn", "burned"}

HasEvent(lg, kinds) == \E i \in 1 .. Len(lg) : lg[i].kind \in kinds

(* ------------------------------- claims ------------------------------- *)

\* C1: in every reachable state the balances of the registered accounts sum
\* to total_supply().
C1_Conservation ==
  SumBalances(accounts) = ft_total_supply(total_supply)

\* C1 witness: a forced unregister has just burned a positive balance while
\* another account still holds tokens.
C1_Witness ==
  /\ last.call.op = "storage_unregister"
  /\ last.ret = "true"
  /\ \E i \in 1 .. Len(logs) : logs[i].kind = "closed" /\ logs[i].amount > 0
  /\ total_supply > 0

\* C2: a successful ft_transfer of N from A to B (A # B, both registered,
\* 0 < N <= balance_of(A)) takes exactly N from A, gives exactly N to B, and
\* leaves total_supply and every other account's balance and registration
\* as they were.
C2_TransferExact ==
  [][(StepOp = "ft_transfer" /\ StepErr = OK) =>
       LET A == StepCaller
           B == StepAccount
           N == StepAmount
       IN /\ A # B
          /\ {A, B} \subseteq Registered(accounts)
          /\ 0 < N /\ N <= ft_balance_of(accounts, A)
          /\ ft_balance_of(accounts', A) = ft_balance_of(accounts, A) - N
          /\ ft_balance_of(accounts', B) = ft_balance_of(accounts, B) + N
          /\ ft_total_supply(total_supply') = ft_total_supply(total_supply)
          /\ Registered(accounts') = Registered(accounts)
          /\ \A c \in Accounts \ {A, B} :
               ft_balance_of(accounts', c) = ft_balance_of(accounts, c)]_vars

\* C2 witness: a transfer has succeeded while a third account is registered.
C2_Witness ==
  /\ last.call.op = "ft_transfer"
  /\ last.err = OK
  /\ Cardinality(Registered(accounts)) = 3
  /\ ft_balance_of(accounts, last.call.caller) > 0

\* C3: a call that fails leaves the balance map, the registered set and
\* total_supply as they were, has emitted no mint, transfer or burn event and
\* schedules no refund.
C3_Atomicity ==
  [][StepErr # OK =>
       /\ LedgerUnchanged
       /\ ~HasEvent(logs', TokenEventKinds)
       /\ promises' = <<>>]_vars

\* C3 witness: a transfer has failed on its unregistered receiver, after the
\* sender had been debited inside the call.
C3_Witness ==
  /\ last.call.op = "ft_transfer"
  /\ last.err = AccountNotRegistered
  /\ last.call.caller \in Registered(accounts)
  /\ last.call.account \notin Registered(accounts)
  /\ last.call.amount > 0
  /\ ft_balance_of(accounts, last.call.caller) >= last.call.amount

\* C4: right after a successful initialization with owner X and supply S,
\* total_supply() = S, balance_of(X) = S, X is registered and every other
\* account is unregistered with balance 0.
C4_Init ==
  (last.call.op \in InitOps /\ last.err = OK) =>
    LET X == last.call.account
        S == last.call.amount
    IN /\ initialized
       /\ ft_total_supply(total_supply) = S
       /\ ft_balance_of(accounts, X) = S
       /\ Registered(accounts) = {X}
       /\ \A c \in Accounts \ {X} : ft_balance_of(accounts, c) = 0

\* C4 witness: the contract has just been initialized with the largest supply.
C4_Witness ==
  /\ last.call.op \in InitOps
  /\ last.err = OK
  /\ last.call.amount = MaxBalance

\* A storage_unregister step of the initialized contract, with the one
\* yoctoNEAR the call requires, by an account that holds a positive balance.
UnregisterWithBalance ==
  /\ initialized
  /\ StepOp = "storage_unregister"
  /\ StepDeposit = 1
  /\ StepCaller \in Registered(accounts)
  /\ ft_balance_of(accounts, StepCaller) > 0

\* C5 as amended: storage_unregister by a registered account with positive
\* balance N fails with NonZeroBalance when force is false or absent, leaving
\* the account registered with balance N; with force=true it removes the
\* entry, lowers total_supply by exactly N, changes no other balance, and the
\* notification that fires is the account-closed one (on_account_closed, for
\* that account and N): no burn notification and no burn event is emitted.
C5_ForcedUnregisterCloses ==
  [][UnregisterWithBalance =>
       LET A == StepCaller
           N == ft_balance_of(accounts, A)
       IN IF StepForce = "true"
          THEN /\ StepErr = OK
               /\ StepRet = "true"
               /\ accounts' = Remove(accounts, A)
               /\ ft_total_supply(total_supply') = ft_total_supply(total_supply) - N
               /\ logs' = <<ClosedLog(A, N)>>
          ELSE /\ StepErr = NonZeroBalance
               /\ LedgerUnchanged
               /\ ft_balance_of(accounts', A) = N]_vars

\* C5 as claimed: the forced unregister of an account holding N fires a burn
\* notification for that account and N.
C5_Original ==
  [][(UnregisterWithBalance /\ StepForce = "true") =>
       \E i \in 1 .. Len(logs') :
         /\ logs'[i].kind \in {"burned", "ft_burn"}
         /\ logs'[i].a = StepCaller
         /\ logs'[i].amount = ft_balance_of(accounts, StepCaller)]_vars

\* C5 witness: an account holding tokens has just been unregistered by force
\* while another account is still registered.
C5_Witness ==
  /\ last.call.op = "storage_unregister"
  /\ last.call.force = "true"
  /\ last.ret = "true"
  /\ logs = <<ClosedLog(last.call.caller, MaxBalance - 1)>>
  /\ Registered(accounts) # {}

\* A storage_unregister step of the initialized contract, with the one
\* yoctoNEAR the call requires, by an account that is not registered.
UnregisterUnregistered ==
  /\ initialized
  /\ StepOp = "storage_unregister"
  /\ StepDeposit = 1
  /\ StepCaller \notin Registered(accounts)

\* C6 as amended: storage_unregister by an account that is not registered
\* does not fail: for every force argument it is a successful call that
\* returns false, logs that the account is not registered, schedules nothing
\* and leaves the ledger unchanged.
C6_UnregisterUnknownReturnsFalse ==
  [][UnregisterUnregistered =>
       /\ StepErr = OK
       /\ StepRet = "false"
       /\ LedgerUnchanged
       /\ logs' = <<NotRegisteredLog(StepCaller)>>
       /\ promises' = <<>>]_vars

\* C6 as claimed: storage_unregister by an account that is not registered is
\* an error and leaves the ledger unchanged.
C6_Original ==
  [][UnregisterUnregistered => (StepErr # OK /\ LedgerUnchanged)]_vars

\* C6 witness: an unregistered account has called storage_unregister with
\* force=true while other accounts hold the supply.
C6_Witness ==
  /\ last.call.op = "storage_unregister"
  /\ last.call.force = "true"
  /\ last.ret = "false"
  /\ last.call.caller \notin Registered(accounts)
  /\ total_supply > 0

\* An ft_transfer step of the initialized contract that passes the checks
\* made before the accounts are looked up: one yoctoNEAR attached, sender
\* other than receiver, positive amount.
TransferPastArgChecks ==
  /\ initialized
  /\ StepOp = "ft_transfer"
  /\ StepDeposit = 1
  /\ StepCaller # StepAccount
  /\ StepAmount > 0

SomePartyUnregistered ==
  \/ StepCaller \notin Registered(accounts)
  \/ StepAccount \notin Registered(accounts)

\* C7 as amended: an ft_transfer whose sender or receiver is not registered
\* fails and leaves all balances, the registered set and total_supply
\* unchanged, registering nobody; the error is AccountNotRegistered, except
\* that a registered sender whose balance is below the amount fails with
\* InsufficientBalance before the unregistered receiver is looked at.
C7_UnregisteredTransferFails ==
  [][(TransferPastArgChecks /\ SomePartyUnregistered) =>
       /\ StepErr = IF /\ StepCaller \in Registered(accounts)
                       /\ ft_balance_of(accounts, StepCaller) < StepAmount
                    THEN InsufficientBalance
                    ELSE AccountNotRegistered
       /\ LedgerUnchanged
       /\ Registered(accounts') = Registered(accounts)]_vars

\* C7 as claimed: an ft_transfer whose sender or receiver is not registered
\* fails with AccountNotRegistered and leaves the ledger unchanged.
C7_Original ==
  [][(TransferPastArgChecks /\ SomePartyUnregistered) =>
       (StepErr = AccountNotRegistered /\ LedgerUnchanged)]_vars

\* C7 witness: a funded sender's transfer to an unregistered receiver has
\* failed with AccountNotRegistered, and the receiver is still unregistered.
C7_Witness ==
  /\ last.call.op = "ft_transfer"
  /\ last.call.deposit = 1
  /\ last.err = AccountNotRegistered
  /\ ft_balance_of(accounts, last.call.caller) >= last.call.amount
  /\ last.call.amount > 0
  /\ last.call.account \notin Registered(accounts)

\* C8: an ft_transfer (with the one yoctoNEAR it requires) whose receiver is
\* the caller fails with SelfTransfer for every amount, 0 and amounts above
\* the balance included, whether or not the caller is registered: the
\* sender # receiver check comes before the ZeroAmount, AccountNotRegistered
\* and InsufficientBalance checks.
C8_SelfTransfer ==
  [][(/\ initialized
      /\ StepOp = "ft_transfer"
      /\ StepDeposit = 1
      /\ StepCaller = StepAccount) =>
       (StepErr = SelfTransfer /\ LedgerUnchanged)]_vars

\* C8 witness: an unregistered caller's transfer of 0 to itself has failed
\* with SelfTransfer.
C8_Witness ==
  /\ last.call.op = "ft_transfer"
  /\ last.call.caller = last.call.account
  /\ last.call.amount = 0
  /\ last.call.caller \notin Registered(accounts)
  /\ last.err = SelfTransfer

\* C9: an ft_transfer (with the one yoctoNEAR it requires) of amount 0
\* between two distinct accounts fails with ZeroAmount and changes no
\* balance; no successful transfer and no transfer event carries amount 0.
C9_ZeroAmount ==
  [][StepOp = "ft_transfer" =>
       /\ (/\ initialized
           /\ StepDeposit = 1
           /\ StepCaller # StepAccount
           /\ StepAmount = 0) => (StepErr = ZeroAmount /\ LedgerUnchanged)
       /\ StepErr = OK => StepAmount > 0
       /\ \A i \in 1 .. Len(logs') :
            logs'[i].kind = "ft_transfer" => logs'[i].amount > 0]_vars

\* C9 witness: a transfer of 0 between two registered accounts has failed
\* with ZeroAmount.
C9_Witness ==
  /\ last.call.op = "ft_transfer"
  /\ last.call.amount = 0
  /\ {last.call.caller, last.call.account} \subseteq Registered(accounts)
  /\ last.call.caller # last.call.account
  /\ last.err = ZeroAmount

\* An ft_transfer step of the initialized contract that meets every
\* precondition other than the attached payment.
TransferOtherwiseValid ==
  /\ initialized
  /\ StepOp = "ft_transfer"
  /\ StepCaller # StepAccount
  /\ {StepCaller, StepAccount} \subseteq Registered(accounts)
  /\ 0 < StepAmount
  /\ StepAmount <= ft_balance_of(accounts, StepCaller)

StepTarget == IF StepAccount = NoAccount THEN StepCaller ELSE StepAccount

RECURSIVE SumPromises(_, _)
\* What a call's promises send to one account.
SumPromises(ps, to) ==
  IF ps = <<>> THEN 0
  ELSE (IF Head(ps).to = to THEN Head(ps).amount ELSE 0) + SumPromises(Tail(ps), to)

\* What the contract keeps of the payment attached to a successful step:
\* the payment less what the call sends back to the caller.
StepKept == StepDeposit - SumPromises(promises', StepCaller)

\* The cost of the storage a step added: one account entry costs
\* storage_balance_bounds().min.
StepStorageCost ==
  StorageBalanceMin * (Cardinality(Registered(accounts')) - Cardinality(Registered(accounts)))

\* C11: storage_deposit for an unregistered account with attached payment
\* p >= storage_balance_bounds().min succeeds, registers the account with
\* balance 0, keeps exactly min and schedules a refund of p - min to the
\* caller (none when p = min); the balances of all other accounts and
\* total_supply are unchanged.
C11_StorageDepositRegisters ==
  [][(/\ initialized
      /\ StepOp = "storage_deposit"
      /\ StepTarget \notin Registered(accounts)
      /\ StepDeposit >= StorageBalanceMin) =>
       /\ StepErr = OK
       /\ accounts' = Insert(accounts, StepTarget, 0)
       /\ ft_total_supply(total_supply') = ft_total_supply(total_supply)
       /\ StepKept = StorageBalanceMin
       /\ promises' = IF StepDeposit > StorageBalanceMin
                      THEN <<[to |-> StepCaller,
                              amount |-> StepDeposit - StorageBalanceMin]>>
                      ELSE <<>>]_vars

\* C11 witness: a caller has registered another account with more than the
\* minimum attached and has a refund scheduled, while tokens are in
\* circulation.
C11_Witness ==
  /\ last.call.op = "storage_deposit"
  /\ last.err = OK
  /\ last.call.account \in Registered(accounts) \ {last.call.caller}
  /\ last.call.deposit > StorageBalanceMin
  /\ promises # <<>>
  /\ ft_balance_of(accounts, last.call.account) = 0
  /\ total_supply > 0

\* C12: for every successful ft_transfer, storage_deposit, storage_withdraw
\* and storage_unregister the contract keeps of the attached payment exactly
\* the cost of the storage the call added (zero when it added none); the
\* rest goes back to the caller.
C12_OverpaymentNeverRetained ==
  [][(/\ StepErr = OK
      /\ StepOp \in {"ft_transfer", "storage_deposit", "storage_withdraw",
                     "storage_unregister"}) =>
       StepKept = StepStorageCost]_vars

\* C13: storage_deposit for an unregistered account with attached payment
\* below storage_balance_bounds().min fails with DepositOutOfBounds and is
\* rolled back: the account stays unregistered, nothing is kept or
\* scheduled.
C13_StorageDepositBelowMin ==
  [][(/\ initialized
      /\ StepOp = "storage_deposit"
      /\ StepTarget \notin Registered(accounts)
      /\ StepDeposit < StorageBalanceMin) =>
       /\ StepErr = DepositOutOfBounds
       /\ LedgerUnchanged
       /\ StepTarget \notin Registered(accounts')
       /\ promises' = <<>>]_vars

\* C13 witness: a storage_deposit with a positive payment below the minimum
\* has failed and its account is not registered.
C13_Witness ==
  /\ last.call.op = "storage_deposit"
  /\ last.err = DepositOutOfBounds
  /\ last.call.deposit > 0
  /\ last.call.account \in Accounts \ Registered(accounts)
  /\ total_supply > 0

\* The two panics of a credit that does not fit a balance.
OverflowErrors == {BalanceOverflow, TotalSupplyOverflow}

\* C14: balances never wrap.  Minting any supply up to the ceiling at
\* initialization succeeds; in every reachable state every balance and
\* total_supply lie in 0 .. MaxBalance; and from every reachable state a
\* credit to a registered account either fits (balance and total_supply grow
\* by exactly the amount) or panics with an overflow error, never wrapping
\* or saturating.
C14_NoSilentWrap ==
  /\ \A o \in Accounts, S \in Amounts :
       LET c == ContractNewDefaultMeta(FALSE, o, S)
       IN c.err = OK /\ c.total_supply = S /\ c.accounts[o] = S
  /\ total_supply \in 0 .. MaxBalance
  /\ \A a \in Registered(accounts) : accounts[a] \in 0 .. MaxBalance
  /\ \A a \in Registered(accounts), n \in Amounts :
       LET c == InternalDeposit(Ctx(accounts, total_supply), a, n)
       IN IF accounts[a] + n > MaxBalance \/ total_supply + n > MaxBalance
          THEN c.err \in OverflowErrors
          ELSE /\ c.err = OK
               /\ c.accounts[a] = accounts[a] + n
               /\ c.total_supply = total_supply + n

\* C14 witness: an account has received the whole supply, the ceiling, by a
\* transfer, so that a credit of one more unit to it overflows.
C14_Witness ==
  /\ last.call.op = "ft_transfer"
  /\ last.err = OK
  /\ ft_balance_of(accounts, last.call.account) = MaxBalance
  /\ InternalDeposit(Ctx(accounts, total_supply), last.call.account, 1).err
       = BalanceOverflow

\* The account the last storage_deposit named: account_id, or the caller.
LastTarget ==
  IF last.call.account = NoAccount THEN last.call.caller ELSE last.call.account

\* C15: an account without an entry has balance_of 0, and no call credits
\* one: an unregistered account gets an entry only by a successful
\* storage_deposit naming it, and that entry holds 0; every other call,
\* whether a transfer to it, the refund of a transfer-and-call it sent, or
\* one that fails, leaves it without an entry.  Right after a storage_unregister
\* that returns true, forced or not, the caller has no entry and balance_of
\* returns 0 for it.
C15_UnregisteredHoldNothing ==
  [][initialized =>
       /\ \A a \in Accounts \ Registered(accounts) :
            /\ ft_balance_of(accounts, a) = 0
            /\ IF StepOp = "storage_deposit" /\ StepErr = OK /\ StepTarget = a
               THEN a \in Registered(accounts') /\ accounts'[a] = 0
               ELSE a \notin Registered(accounts') /\ ft_balance_of(accounts', a) = 0
       /\ (StepOp = "storage_unregister" /\ StepRet = "true") =>
            /\ StepCaller \notin Registered(accounts')
            /\ ft_balance_of(accounts', StepCaller) = 0]_vars

\* C15 witness: the callback of a transfer-and-call has run after its sender
\* unregistered by force, with tokens to give back, and the sender has no
\* entry.
C15_Witness ==
  /\ last.call.op = "ft_resolve_transfer"
  /\ last.err = OK
  /\ last.call.caller \notin Registered(accounts)
  /\ last.call.result # 0
  /\ HasEvent(logs, {"ft_burn"})

C18_AccountStateMachine ==
  [][initialized =>
       \A a \in Accounts :
         /\ (a \notin Registered(accounts) /\ a \in Registered(accounts')) =>
              /\ StepOp = "storage_deposit"
              /\ StepErr = OK
              /\ StepTarget = a
              /\ accounts'[a] = 0
         /\ (a \in Registered(accounts) /\ a \notin Registered(accounts')) =>
              /\ StepOp = "storage_unregister"
              /\ StepErr = OK
              /\ StepCaller = a
              /\ (accounts[a] = 0 \/ StepForce = "true")
         /\ (StepOp = "storage_deposit" /\ StepTarget = a
               /\ a \in Registered(accounts)) =>
              /\ StepErr = OK
              /\ accounts' = accounts
              /\ ft_total_supply(total_supply') = ft_total_supply(total_supply)]_vars

\* C18 witness: a storage_deposit has named an account that was registered
\* and holds tokens, and the account still holds them.
C18_Witness ==
  /\ last.call.op = "storage_deposit"
  /\ last.err = OK
  /\ logs = <<AlreadyRegisteredLog>>
  /\ LastTarget \in Registered(accounts)
  /\ accounts[LastTarget] > 0

\* C16: the contract is initialized at most once.  new or new_default_meta
\* on a contract whose state exists fails with AlreadyInitialized, whatever
\* its arguments, and changes neither the ledger nor the metadata nor
\* schedules anything; the contract becomes initialized only by a successful
\* initializer, which stores metadata; and from then on no call changes what
\* ft_metadata returns or makes the contract uninitialized.
C16_InitializedOnce ==
  [][/\ (initialized /\ StepOp \in InitOps) =>
          /\ StepErr = AlreadyInitialized
          /\ LedgerUnchanged
          /\ promises' = <<>>
     /\ initialized =>
          /\ initialized'
          /\ ft_metadata(metadata') = ft_metadata(metadata)
     /\ (~initialized /\ initialized') =>
          /\ StepOp \in InitOps
          /\ StepErr = OK
          /\ ft_metadata(metadata') # NoMetadata]_vars

\* C16 witness: new, with metadata of its own, has failed on a contract that
\* new_default_meta initialized and that has since registered a second
\* account; the metadata is still the default one.
C16_Witness ==
  /\ last.call.op = "new"
  /\ last.err = AlreadyInitialized
  /\ ft_metadata(metadata) = RebuildMetadata(DefaultMeta)
  /\ Cardinality(Registered(accounts)) > 1

\* C19 as claimed: the funds the contract has kept of attached payments,
\* less the refunds it has sent, cover storage_balance_bounds().min for
\* every registered account, the owner included, and are never negative.
C19_StorageBacked ==
  /\ funds >= StorageBalanceMin * Cardinality(Registered(accounts))
  /\ funds >= 0

\* C19, the refund: a storage_unregister has refunded the storage deposit of
\* the owner, which new registered without any payment, and the contract has
\* paid out more than it ever received.
C19_UnpaidRefund ==
  /\ last.call.op = "storage_unregister"
  /\ last.ret = "true"
  /\ promises = <<[to |-> last.call.caller, amount |-> StorageBalanceMin + 1]>>
  /\ funds < 0

\* What the ft_resolve_transfer step takes back from the receiver.
StepTaken == ft_balance_of(accounts, StepAccount) - ft_balance_of(accounts', StepAccount)

\* C20: a successful ft_transfer_call moves the amount from sender to
\* receiver at once and leaves its callback due.  Whatever calls run before
\* the callback, ft_resolve_transfer does not fail and takes back from the
\* receiver exactly min(unused amount, receiver's current balance), which is
\* nothing when the receiver has unregistered; it credits that to the sender
\* if the sender is still registered, and otherwise lowers total_supply by it
\* and runs on_tokens_burned for the sender and that amount; it changes no
\* other balance and nobody's registration, leaves no balance below 0, and
\* sum(balances) = total_supply holds before and after it.
C20_ResolveKeepsLedger ==
  [][/\ (StepOp = "ft_transfer_call" /\ StepErr = OK) =>
          /\ accounts' = [accounts EXCEPT ![StepCaller] = @ - StepAmount,
                                          ![StepAccount] = @ + StepAmount]
          /\ total_supply' = total_supply
          /\ pending' = Append(pending, [sender |-> StepCaller,
                                         receiver |-> StepAccount,
                                         amount |-> StepAmount])
     /\ StepOp = "ft_resolve_transfer" =>
          LET S == StepCaller
              R == StepAccount
              unused == UnusedAmount(StepAmount, last'.call.result)
              there == S \in Registered(accounts)
          IN /\ StepErr = OK
             /\ StepTaken = Min(unused, ft_balance_of(accounts, R))
             /\ Registered(accounts') = Registered(accounts)
             /\ \A a \in Registered(accounts') :
                  /\ accounts'[a] >= 0
                  /\ accounts'[a] = accounts[a]
                                     + (IF a = S THEN StepTaken ELSE 0)
                                     - (IF a = R THEN StepTaken ELSE 0)
             /\ total_supply' = IF there THEN total_supply
                                ELSE total_supply - StepTaken
             /\ (\E k \in 1 .. Len(logs') : logs'[k].kind = "burned")
                  <=> (~there /\ StepTaken > 0)
             /\ (~there /\ StepTaken > 0) =>
                  logs'[Len(logs')] = BurnedLog(S, StepTaken)
             /\ SumBalances(accounts) = total_supply
             /\ SumBalances(accounts') = total_supply'
             /\ Len(pending') = Len(pending) - 1]_vars

\* C20 witness: the receiver passed on part of what it received before the
\* callback ran; the callback, told that nothing was used, gave the sender
\* back only what the receiver still held.
C20_Witness ==
  /\ last.call.op = "ft_resolve_transfer"
  /\ last.err = OK
  /\ last.call.result = NoAmount
  /\ last.call.amount = MaxBalance
  /\ logs = <<FtTransfer(last.call.account, last.call.caller, MaxBalance - 1,
                         "refund")>>

=============================================================================
